---- MODULE Spec2Model ----
(***************************************************************************)
(* cybox/common/properties.py: BaseProperty and its thirteen datatype      *)
(* variants.  A property carries a value (parsed on every assignment), a   *)
(* datatype tag, nine identity / obfuscation / defanging fields and the    *)
(* pattern fields of PatternFieldGroup, and converts to and from a map     *)
(* form (to_dict / from_dict) and a tree form (to_obj / from_obj).         *)
(*                                                                         *)
(* The code is Python 2 (__nonzero__, map() returning a list), so map() is *)
(* modelled as the eager, order-preserving list it returns there.          *)
(***************************************************************************)
EXTENDS Integers, Sequences, FiniteSets, TLC

VARIABLES self, built, raw, orig, out, res

vars == <<self, built, raw, orig, out, res>>

---------------------------------------------------------------------------
(* Bounds of the model *)

\* longest list handed to the value setter
MaxLen == 2
\* most metadata fields (identity, obfuscation, defanging, pattern) set at once
MaxSet == 1

---------------------------------------------------------------------------
(* Python values.  Every value is a record of the same shape, so that      *)
(* Python's == between values of different types is record inequality.     *)

None == [t |-> "none", s |-> "", n |-> 0, items |-> <<>>]
PyStr(x) == [t |-> "str", s |-> x, n |-> 0, items |-> <<>>]
PyInt(k) == [t |-> "int", s |-> "", n |-> k, items |-> <<>>]
PyBool(b) == [t |-> "bool", s |-> "", n |-> IF b THEN 1 ELSE 0, items |-> <<>>]
PyDatetime(k) == [t |-> "datetime", s |-> "", n |-> k, items |-> <<>>]
PyList(xs) == [t |-> "list", s |-> "", n |-> 0, items |-> xs]
PyDict(f) == [t |-> "dict", s |-> "", n |-> 0, items |-> f]
\* a raised exception, named by its class
Raise(name) == [t |-> "raise", s |-> name, n |-> 0, items |-> <<>>]

True == PyBool(TRUE)
False == PyBool(FALSE)

\* Python truthiness (`not x`) of the values fed to from_dict / _parse_value
Falsy(v) ==
    CASE v.t = "none" -> TRUE
      [] v.t = "str" -> v.s = ""
      [] v.t = "int" -> v.n = 0
      [] v.t = "bool" -> v.n = 0
      [] v.t = "list" -> Len(v.items) = 0
      [] v.t = "dict" -> DOMAIN v.items = {}
      [] OTHER -> FALSE

\* dict.get(key): None when the key is missing
Get(d, k) == IF k \in DOMAIN d.items THEN d.items[k] ELSE None

\* d[key] = v
Put(d, k, v) ==
    PyDict([x \in (DOMAIN d.items) \cup {k} |-> IF x = k THEN v ELSE d.items[x]])

EmptyDict == PyDict([x \in {} |-> None])

---------------------------------------------------------------------------
(* The variants *)

Variants ==
    {"String", "UnsignedLong", "Integer", "PositiveInteger", "UnsignedInteger",
     "NonNegativeInteger", "AnyURI", "HexBinary", "Duration", "DateTime",
     "Double", "Float", "Long"}

\* the tag each variant's __init__ assigns to self.datatype
DatatypeTag(cls) ==
    CASE cls = "String" -> "string"
      [] cls = "UnsignedLong" -> "unsignedLong"
      [] cls = "Integer" -> "integer"
      [] cls = "PositiveInteger" -> "positiveInteger"
      [] cls = "UnsignedInteger" -> "unsignedInt"
      [] cls = "NonNegativeInteger" -> "nonNegativeInteger"
      [] cls = "AnyURI" -> "anyURI"
      [] cls = "HexBinary" -> "hexBinary"
      [] cls = "Duration" -> "duration"
      [] cls = "DateTime" -> "dateTime"
      [] cls = "Double" -> "double"
      [] cls = "Float" -> "float"
      [] cls = "Long" -> "long"

\* variants whose __init__ names the undefined global BaseProeprty
MisspelledInit == {"UnsignedInteger", "NonNegativeInteger"}

\* variants that define _parse_value as int(value)
IntParsing == {"UnsignedLong", "Integer", "PositiveInteger", "NonNegativeInteger"}

\* the five variants the schema calls integers
IntegerFamily ==
    {"Integer", "UnsignedLong", "PositiveInteger", "UnsignedInteger",
     "NonNegativeInteger"}

---------------------------------------------------------------------------
(* Value conversion *)

\* text that int() accepts, with the integer it denotes
NumericText == ("42" :> 42) @@ ("0" :> 0) @@ (" 7" :> 7)

\* Python's int(value)
int(value) ==
    CASE value.t = "int" -> value
      [] value.t = "bool" -> PyInt(value.n)
      [] value.t = "str" ->
            IF value.s \in DOMAIN NumericText
            THEN PyInt(NumericText[value.s])
            ELSE Raise("ValueError")
      [] OTHER -> Raise("TypeError")

\* text dateutil.parser.parse accepts, with the timestamp it denotes
TimestampText == ("2013-01-01T00:00:00" :> 1) @@ ("Jan 1 2013" :> 1)
                 @@ ("2014-06-30T12:00:00" :> 2)

\* dateutil.parser.parse(value)
dateutil_parse(value) ==
    CASE value.t = "str" ->
            IF value.s \in DOMAIN TimestampText
            THEN PyDatetime(TimestampText[value.s])
            ELSE Raise("ValueError")
      [] OTHER -> Raise("TypeError")

\* datetime.isoformat()
isoformat(value) ==
    IF value.n = 1 THEN PyStr("2013-01-01T00:00:00") ELSE PyStr("2014-06-30T12:00:00")

\* cls._parse_value(value)
parse_value(cls, value) ==
    CASE cls \in IntParsing -> IF value = None THEN None ELSE int(value)
      [] cls = "DateTime" ->
            IF Falsy(value) THEN None
            ELSE IF value.t = "datetime" THEN value
            ELSE dateutil_parse(value)
      [] OTHER -> value

\* cls._serialize_value(value)
serialize_value(cls, value) ==
    IF cls = "DateTime"
    THEN IF Falsy(value) THEN None ELSE isoformat(value)
    ELSE value

\* map(f, xs) of Python 2, given ys = <<f(xs[1]), ..., f(xs[n])>>: the list of
\* the results, in order; the first element that raises ends the evaluation
\* with its exception
map(ys) ==
    LET bad == {i \in 1..Len(ys) : ys[i].t = "raise"}
    IN IF bad = {} THEN PyList(ys)
       ELSE ys[CHOOSE i \in bad : \A j \in bad : i <= j]

\* the value setter: what self._value becomes, or the exception raised
value_setter(cls, value_) ==
    IF value_.t = "list"
    THEN map([i \in 1..Len(value_.items) |-> parse_value(cls, value_.items[i])])
    ELSE parse_value(cls, value_)

---------------------------------------------------------------------------
(* PatternFieldGroup (cybox/common/attribute_groups.py) and the binding     *)
(* classes (cybox/bindings/cybox_common.py): the parts BaseProperty calls.  *)

PatternFields ==
    {"condition", "bit_mask", "pattern_type", "regex_syntax", "has_changed", "trend"}

PatternFieldGroup_is_plain(p) ==
    \A f \in PatternFields : p[f] = None

PatternFieldGroup_conditions_equal(p, q) ==
    p.condition = q.condition

PatternFieldGroup_to_dict(p, d) ==
    [t |-> "dict", s |-> "", n |-> 0,
     items |-> [k \in (DOMAIN d.items) \cup {f \in PatternFields : p[f] # None} |->
                    IF k \in PatternFields THEN p[k] ELSE d.items[k]]]

PatternFieldGroup_from_dict(d, p) ==
    [k \in DOMAIN p |-> IF k \in PatternFields THEN Get(d, k) ELSE p[k]]

PatternFieldGroup_to_obj(p, node) ==
    [k \in DOMAIN node |-> IF k \in PatternFields THEN p[k] ELSE node[k]]

PatternFieldGroup_from_obj(node, p) ==
    [k \in DOMAIN p |-> IF k \in PatternFields THEN node[k] ELSE p[k]]

\* AttrBindingClass(): a fresh node of the variant's binding class, nothing set
BindingNode(cls) ==
    [t |-> "node", binding |-> cls, valueOf_ |-> None,
     id |-> None, idref |-> None, datatype |-> None,
     appears_random |-> None, is_obfuscated |-> None,
     obfuscation_algorithm_ref |-> None, is_defanged |-> None,
     defanging_algorithm_ref |-> None, refanging_transform_type |-> None,
     refanging_transform |-> None,
     condition |-> None, bit_mask |-> None, pattern_type |-> None,
     regex_syntax |-> None, has_changed |-> None, trend |-> None]

\* cybox.utils: the text encoding of a value in the tree form, and its inverse
normalize_to_xml(value) ==
    [t |-> "xml", s |-> "", n |-> 0, items |-> <<value>>]

denormalize_from_xml(text) ==
    IF text.t = "xml" THEN text.items[1] ELSE text

---------------------------------------------------------------------------
(* BaseProperty *)

\* the nine fields of the BaseObjectProperty group that is_plain() tests
BaseFields ==
    {"id_", "idref", "appears_random", "is_obfuscated", "obfuscation_algorithm_ref",
     "is_defanged", "defanging_algorithm_ref", "refanging_transform_type",
     "refanging_transform"}

\* the key to_dict / from_dict use for a field, and the attribute of the node
KeyOf(f) == IF f = "id_" THEN "id" ELSE f

\* BaseProperty.__init__(self, value): the new instance, or the exception of
\* the value setter
BaseProperty_init(cls, value) ==
    LET v == value_setter(cls, value)
    IN IF v.t = "raise" THEN v
       ELSE [t |-> "property", cls |-> cls, value |-> v,
             id_ |-> None, idref |-> None, datatype |-> None,
             appears_random |-> None, is_obfuscated |-> None,
             obfuscation_algorithm_ref |-> None, is_defanged |-> None,
             defanging_algorithm_ref |-> None, refanging_transform_type |-> None,
             refanging_transform |-> None,
             condition |-> None, bit_mask |-> None, pattern_type |-> None,
             regex_syntax |-> None, has_changed |-> None, trend |-> None]

\* a variant's __init__ that forgets to assign its tag
init_without_tag(cls, value) ==
    IF cls \in MisspelledInit THEN Raise("NameError")
    ELSE BaseProperty_init(cls, value)

\* cls.__init__(self, value) of a variant: BaseProperty.__init__, then the tag
init(cls, value) ==
    IF cls \in MisspelledInit THEN Raise("NameError")
    ELSE LET b == BaseProperty_init(cls, value)
         IN IF b.t = "raise" THEN b
            ELSE [b EXCEPT !.datatype = PyStr(DatatypeTag(cls))]

\* a value setter that stores the raw input unparsed
set_value_unparsed(p, value_) == [p EXCEPT !.value = value_]

\* p.value = value_ on an existing instance
set_value(p, value_) ==
    LET v == value_setter(p.cls, value_)
    IN IF v.t = "raise" THEN v ELSE [p EXCEPT !.value = v]

serialized_value(p) ==
    IF p.value.t = "list"
    THEN map([i \in 1..Len(p.value.items) |-> serialize_value(p.cls, p.value.items[i])])
    ELSE serialize_value(p.cls, p.value)

is_plain(p) ==
    /\ p.id_ = None
    /\ p.idref = None
    /\ p.appears_random = None
    /\ p.is_obfuscated = None
    /\ p.obfuscation_algorithm_ref = None
    /\ p.is_defanged = None
    /\ p.defanging_algorithm_ref = None
    /\ p.refanging_transform_type = None
    /\ p.refanging_transform = None
    /\ PatternFieldGroup_is_plain(p)

\* an __eq__ that leaves datatype out of the comparison
full_equal_ignoring_datatype(p, other) ==
    \A f \in {"value"} \cup BaseFields \cup PatternFields : p[f] = other[f]

\* the conjunction __eq__ returns for two properties
full_equal(p, other) ==
    /\ p.value = other.value
    /\ p.id_ = other.id_
    /\ p.idref = other.idref
    /\ p.datatype = other.datatype
    /\ p.appears_random = other.appears_random
    /\ p.is_obfuscated = other.is_obfuscated
    /\ p.obfuscation_algorithm_ref = other.obfuscation_algorithm_ref
    /\ p.is_defanged = other.is_defanged
    /\ p.defanging_algorithm_ref = other.defanging_algorithm_ref
    /\ p.refanging_transform_type = other.refanging_transform_type
    /\ p.refanging_transform = other.refanging_transform
    /\ PatternFieldGroup_conditions_equal(p, other)
    /\ p.bit_mask = other.bit_mask
    /\ p.pattern_type = other.pattern_type
    /\ p.regex_syntax = other.regex_syntax
    /\ p.has_changed = other.has_changed
    /\ p.trend = other.trend

\* p == other: True, False, or the AttributeError of other.value on a value
\* that is no property
eq(p, other) ==
    IF other.t # "property" /\ is_plain(p)
    THEN PyBool(p.value = other)
    ELSE IF other.t # "property"
         THEN Raise("AttributeError")
         ELSE PyBool(full_equal(p, other))

\* p != other
ne(p, other) ==
    LET e == eq(p, other)
    IN IF e.t = "raise" THEN e ELSE PyBool(e = False)

\* bool(p)
nonzero(p) == (~is_plain(p)) \/ (p.value # None)

\* `if p.<f>: attr_dict[<key>] = p.<f>`: truthiness in place of `is not None`
PutField_if_truthy(p, f, d) == IF ~Falsy(p[f]) THEN Put(d, KeyOf(f), p[f]) ELSE d

\* `if p.<f> is not None: attr_dict[<key>] = p.<f>`
PutField(p, f, d) == IF p[f] # None THEN Put(d, KeyOf(f), p[f]) ELSE d

to_dict(p) ==
    IF is_plain(p) THEN serialized_value(p)
    ELSE LET d0 == IF p.value # None
                   THEN Put(EmptyDict, "value", serialized_value(p))
                   ELSE EmptyDict
             d1 == PutField(p, "id_", d0)
             d2 == PutField(p, "idref", d1)
             d3 == PutField(p, "appears_random", d2)
             d4 == PutField(p, "is_obfuscated", d3)
             d5 == PutField(p, "obfuscation_algorithm_ref", d4)
             d6 == PutField(p, "is_defanged", d5)
             d7 == PutField(p, "defanging_algorithm_ref", d6)
             d8 == PutField(p, "refanging_transform_type", d7)
             d9 == PutField(p, "refanging_transform", d8)
         IN PatternFieldGroup_to_dict(p, d9)

\* `if p.<f> is not None: attr_obj.set_<attr>(p.<f>)`
SetAttr(p, f, node) == IF p[f] # None THEN [node EXCEPT ![KeyOf(f)] = p[f]] ELSE node

to_obj(p) ==
    LET n0 == [BindingNode(p.cls) EXCEPT
                  !.valueOf_ = normalize_to_xml(serialized_value(p))]
        n1 == SetAttr(p, "id_", n0)
        n2 == SetAttr(p, "idref", n1)
        n3 == SetAttr(p, "appears_random", n2)
        n4 == SetAttr(p, "is_obfuscated", n3)
        n5 == SetAttr(p, "obfuscation_algorithm_ref", n4)
        n6 == SetAttr(p, "is_defanged", n5)
        n7 == SetAttr(p, "defanging_algorithm_ref", n6)
        n8 == SetAttr(p, "refanging_transform_type", n7)
        n9 == SetAttr(p, "refanging_transform", n8)
    IN PatternFieldGroup_to_obj(p, n9)

populate_from_obj(p, attr_obj) ==
    LET a == set_value(p, denormalize_from_xml(attr_obj.valueOf_))
    IN IF a.t = "raise" THEN a
       ELSE PatternFieldGroup_from_obj(attr_obj,
              [a EXCEPT !.id_ = attr_obj.id,
                        !.idref = attr_obj.idref,
                        !.datatype = attr_obj.datatype,
                        !.appears_random = attr_obj.appears_random,
                        !.is_obfuscated = attr_obj.is_obfuscated,
                        !.obfuscation_algorithm_ref = attr_obj.obfuscation_algorithm_ref,
                        !.is_defanged = attr_obj.is_defanged,
                        !.defanging_algorithm_ref = attr_obj.defanging_algorithm_ref,
                        !.refanging_transform_type = attr_obj.refanging_transform_type,
                        !.refanging_transform = attr_obj.refanging_transform])

\* cls.from_obj(attr_obj): None, the new instance, or the exception raised
from_obj(cls, attr_obj) ==
    IF Falsy(attr_obj) THEN None
    ELSE LET attr == init(cls, None)
         IN IF attr.t = "raise" THEN attr ELSE populate_from_obj(attr, attr_obj)

\* a _populate_from_dict that leaves the datatype of the constructor alone
populate_from_dict_keeping_datatype(p, attr_dict) ==
    IF attr_dict.t # "dict"
    THEN set_value(p, attr_dict)
    ELSE LET a == set_value(p, Get(attr_dict, "value"))
         IN IF a.t = "raise" THEN a
            ELSE PatternFieldGroup_from_dict(attr_dict,
                   [k \in DOMAIN a |->
                       IF k \in BaseFields THEN Get(attr_dict, KeyOf(k)) ELSE a[k]])

\* a _populate_from_dict that reads obfuscation_algorithm_ref from the key of
\* defanging_algorithm_ref
populate_from_dict_wrong_key(p, attr_dict) ==
    IF attr_dict.t # "dict"
    THEN set_value(p, attr_dict)
    ELSE LET a == set_value(p, Get(attr_dict, "value"))
         IN IF a.t = "raise" THEN a
            ELSE PatternFieldGroup_from_dict(attr_dict,
                   [k \in DOMAIN a |->
                       IF k = "datatype" THEN Get(attr_dict, "datatype")
                       ELSE IF k = "obfuscation_algorithm_ref"
                       THEN Get(attr_dict, "defanging_algorithm_ref")
                       ELSE IF k \in BaseFields THEN Get(attr_dict, KeyOf(k))
                       ELSE a[k]])

populate_from_dict(p, attr_dict) ==
    IF attr_dict.t # "dict"
    THEN set_value(p, attr_dict)
    ELSE LET a == set_value(p, Get(attr_dict, "value"))
         IN IF a.t = "raise" THEN a
            ELSE PatternFieldGroup_from_dict(attr_dict,
                   [a EXCEPT !.datatype = Get(attr_dict, "datatype"),
                             !.id_ = Get(attr_dict, "id"),
                             !.idref = Get(attr_dict, "idref"),
                             !.appears_random = Get(attr_dict, "appears_random"),
                             !.is_obfuscated = Get(attr_dict, "is_obfuscated"),
                             !.obfuscation_algorithm_ref =
                                 Get(attr_dict, "obfuscation_algorithm_ref"),
                             !.is_defanged = Get(attr_dict, "is_defanged"),
                             !.defanging_algorithm_ref =
                                 Get(attr_dict, "defanging_algorithm_ref"),
                             !.refanging_transform_type =
                                 Get(attr_dict, "refanging_transform_type"),
                             !.refanging_transform =
                                 Get(attr_dict, "refanging_transform")])

\* cls.from_dict(attr_dict): None, the new instance, or the exception raised
from_dict(cls, attr_dict) ==
    IF Falsy(attr_dict) THEN None
    ELSE LET attr == init(cls, None)
         IN IF attr.t = "raise" THEN attr ELSE populate_from_dict(attr, attr_dict)

---------------------------------------------------------------------------
(* Inputs of the model *)

\* "no object": a variable that holds nothing yet
Unset == [t |-> "unset", s |-> "", n |-> 0, items |-> <<>>]

\* raw scalars handed to the value setter of a variant
Scalars(cls) ==
    IF cls = "DateTime"
    THEN {None, PyStr(""), PyStr("abc"), PyInt(0), PyDatetime(1),
          PyStr("Jan 1 2013"), PyStr("2014-06-30T12:00:00")}
    ELSE {None, PyStr(""), PyStr("abc"), PyStr("42"), PyInt(0), PyInt(42)}

\* elements of the raw lists handed to the value setter
ListElems(cls) ==
    IF cls = "DateTime"
    THEN {PyStr("Jan 1 2013"), PyStr("")}
    ELSE {PyStr("42"), PyStr("abc")}

Lists(cls) ==
    {PyList(xs) : xs \in UNION {[1..k -> ListElems(cls)] : k \in 0..MaxLen}}

\* the raw values of the runs that vary the value
RawValues(cls) == Scalars(cls) \cup Lists(cls)

\* the raw values of the runs that vary the metadata: no value, an empty
\* value and a non-empty one
MetaValues(cls) ==
    IF cls = "DateTime" THEN {None, PyDatetime(1)}
    ELSE IF cls \in IntegerFamily THEN {None, PyInt(0), PyInt(42)}
    ELSE {None, PyStr(""), PyStr("abc")}

\* the value a metadata field is set to
FieldValue(f) ==
    IF f \in {"appears_random", "is_defanged"} THEN True
    ELSE IF f \in {"is_obfuscated", "has_changed"} THEN False
    ELSE IF f \in {"id_", "idref"} THEN PyStr("example:Object-1")
    ELSE PyStr("x")

SetFields(p) == {f \in BaseFields \cup PatternFields : p[f] # None}

\* mappings handed to from_dict: each of value and datatype present or not
Absent == [t |-> "absent", s |-> "", n |-> 0, items |-> <<>>]

MkDict(v, dt) ==
    LET sel(k) == IF k = "value" THEN v ELSE dt
    IN PyDict([k \in {x \in {"value", "datatype"} : sel(x) # Absent} |-> sel(k)])

Mappings(cls) ==
    {MkDict(v, dt) :
        v \in {Absent, PyStr("42"), PyInt(0)},
        dt \in {Absent, PyStr(DatatypeTag(cls)), PyStr("string")}}

\* tree nodes handed to from_obj
Nodes(cls) ==
    {[BindingNode(cls) EXCEPT !.valueOf_ = normalize_to_xml(v), !.datatype = dt] :
        v \in {None, PyStr("42")},
        dt \in {None, PyStr(DatatypeTag(cls)), PyStr("string")}}

\* bare scalars a property is compared with
Operands == {PyStr("abc"), PyInt(42)}

---------------------------------------------------------------------------
(* The state: `self` is the property at hand (Unset when there is none),    *)
(* `built` tells how it was made, `raw` is the raw input of the last        *)
(* completed assignment to self.value, `out` is the last serialized form    *)
(* and `orig` the property it was serialized from, `res` is the last        *)
(* operation with the class it was called on, its argument and its result.  *)

Init ==
    /\ self = Unset
    /\ built = "none"
    /\ raw = Unset
    /\ orig = Unset
    /\ out = Unset
    /\ res = [op |-> "none", cls |-> "", arg |-> Unset, ret |-> Unset]

\* p = V(v).  A run follows one property at a time: a new one is made when
\* there is none at hand (at the start, or after a failed or absent creation)
Construct(V, v) ==
    LET r == init(V, v)
    IN /\ self.t = "unset"
       /\ self' = IF r.t = "raise" THEN Unset ELSE r
       /\ built' = IF r.t = "raise" THEN "none" ELSE "init"
       /\ raw' = IF r.t = "raise" THEN Unset ELSE v
       /\ orig' = Unset
       /\ out' = Unset
       /\ res' = [op |-> "init", cls |-> V, arg |-> v, ret |-> r]

\* p.value = v.  A run builds its property first and serializes it after:
\* once a serialized form is at hand, it is read back and compared
AssignValue(v) ==
    /\ self.t = "property"
    /\ out.t = "unset"
    /\ LET r == set_value(self, v)
       IN /\ self' = IF r.t = "raise" THEN self ELSE r
          /\ raw' = IF r.t = "raise" THEN raw ELSE v
          /\ res' = [op |-> "set_value", cls |-> self.cls, arg |-> v,
                     ret |-> IF r.t = "raise" THEN r ELSE None]
    /\ UNCHANGED <<built, orig, out>>

\* p.<f> = x, for a field of the BaseObjectProperty group or a pattern field
AssignField(f, x) ==
    /\ self.t = "property"
    /\ out.t = "unset"
    /\ Cardinality(SetFields([self EXCEPT ![f] = x])) <= MaxSet
    /\ self' = [self EXCEPT ![f] = x]
    /\ res' = [op |-> "set_field", cls |-> self.cls, arg |-> Unset, ret |-> None]
    /\ UNCHANGED <<built, raw, orig, out>>

\* d = p.to_dict()
ToDict ==
    /\ self.t = "property"
    /\ out' = to_dict(self)
    /\ orig' = self
    /\ res' = [op |-> "to_dict", cls |-> self.cls, arg |-> Unset, ret |-> to_dict(self)]
    /\ UNCHANGED <<self, built, raw>>

\* node = p.to_obj()
ToObj ==
    /\ self.t = "property"
    /\ out' = to_obj(self)
    /\ orig' = self
    /\ res' = [op |-> "to_obj", cls |-> self.cls, arg |-> Unset, ret |-> to_obj(self)]
    /\ UNCHANGED <<self, built, raw>>

\* the map form at hand is the output of to_dict of a property of class V
HasDict(V) == orig.t = "property" /\ out.t # "node" /\ orig.cls = V

\* the tree node at hand is the output of to_obj of a property of class V
HasNode(V) == orig.t = "property" /\ out.t = "node" /\ orig.cls = V

\* q = V.from_dict(x): of an input of the model when no property is at hand,
\* or of the map form at hand (which stays at hand, with its property)
FromDict(V, x) ==
    LET r == from_dict(V, x)
        back == HasDict(V) /\ x = out
    IN /\ self.t = "unset" \/ back
       /\ self' = IF r.t = "property" THEN r ELSE Unset
       /\ built' = IF r.t # "property" THEN "none"
                   ELSE IF x.t = "dict" THEN "from_dict:mapping"
                   ELSE "from_dict:scalar"
       /\ raw' = IF r.t = "property"
                 THEN (IF x.t = "dict" THEN Get(x, "value") ELSE x)
                 ELSE Unset
       /\ orig' = IF back THEN orig ELSE Unset
       /\ out' = IF back THEN out ELSE Unset
       /\ res' = [op |-> "from_dict", cls |-> V, arg |-> x, ret |-> r]

\* q = V.from_obj(node): likewise
FromObj(V, node) ==
    LET r == from_obj(V, node)
        back == HasNode(V) /\ node = out
    IN /\ self.t = "unset" \/ back
       /\ self' = IF r.t = "property" THEN r ELSE Unset
       /\ built' = IF r.t = "property" THEN "from_obj" ELSE "none"
       /\ raw' = IF r.t = "property" THEN denormalize_from_xml(node.valueOf_)
                 ELSE Unset
       /\ orig' = IF back THEN orig ELSE Unset
       /\ out' = IF back THEN out ELSE Unset
       /\ res' = [op |-> "from_obj", cls |-> V, arg |-> node, ret |-> r]

\* p == other
Eq(other) ==
    /\ self.t = "property"
    /\ res' = [op |-> "eq", cls |-> self.cls, arg |-> other, ret |-> eq(self, other)]
    /\ UNCHANGED <<self, built, raw, orig, out>>

\* p != other
Ne(other) ==
    /\ self.t = "property"
    /\ res' = [op |-> "ne", cls |-> self.cls, arg |-> other, ret |-> ne(self, other)]
    /\ UNCHANGED <<self, built, raw, orig, out>>

---------------------------------------------------------------------------
(* What the steps of a run draw their inputs from *)

\* the raw values the property at hand may be assigned
SelfRawValues == IF self.t = "property" THEN RawValues(self.cls) ELSE {}

SelfMetaValues == IF self.t = "property" THEN MetaValues(self.cls) ELSE {}

\* the classes a property is created from: any, when none is at hand
Creatable == IF self.t = "unset" THEN Variants ELSE {}

\* the class whose from_dict / from_obj reads a serialized form back
Readable == IF orig.t = "property" THEN {orig.cls} ELSE {}

\* the map forms from_dict is given
DictInputs(V) ==
    (IF self.t = "unset" THEN RawValues(V) \cup Mappings(V) ELSE {})
    \cup (IF HasDict(V) THEN {out} ELSE {})

\* the nodes from_obj is given
ObjInputs(V) ==
    (IF self.t = "unset" THEN {None} \cup Nodes(V) ELSE {})
    \cup (IF HasNode(V) THEN {out} ELSE {})

\* what a property is compared with: the property whose serialized form is
\* at hand when there is one, else a bare scalar
Others ==
    IF self.t # "property" THEN {}
    ELSE IF orig.t = "property" THEN {orig} ELSE Operands

\* The runs that vary the value: every raw value, every input of from_dict
\* and from_obj, no metadata.
Next ==
    \/ \E V \in Creatable : \E v \in RawValues(V) : Construct(V, v)
    \/ \E v \in SelfRawValues : AssignValue(v)
    \/ ToDict
    \/ ToObj
    \/ \E V \in Creatable \cup Readable : \E x \in DictInputs(V) : FromDict(V, x)
    \/ \E V \in Creatable \cup Readable : \E node \in ObjInputs(V) : FromObj(V, node)
    \/ \E other \in Others : Eq(other)
    \/ \E other \in Others : Ne(other)

Spec == Init /\ [][Next]_vars

\* The runs that vary the metadata: a constructed property, up to MaxSet of
\* its fields set, serialized, read back and compared.
NextMeta ==
    \/ \E V \in Creatable : \E v \in MetaValues(V) : Construct(V, v)
    \/ \E v \in SelfMetaValues : AssignValue(v)
    \/ \E f \in BaseFields \cup PatternFields :
          \E x \in {FieldValue(f), None} : AssignField(f, x)
    \/ ToDict
    \/ ToObj
    \/ \E V \in Readable : \E x \in (IF HasDict(V) THEN {out} ELSE {}) : FromDict(V, x)
    \/ \E V \in Readable : \E node \in (IF HasNode(V) THEN {out} ELSE {}) : FromObj(V, node)
    \/ \E other \in Others : Eq(other)
    \/ \E other \in Others : Ne(other)

SpecMeta == Init /\ [][NextMeta]_vars

---------------------------------------------------------------------------
(* Properties *)

\* variants that store the raw value as it is given
PassThrough == Variants \ (IntParsing \cup {"DateTime"})

\* the last operation read back the map form at hand
ReadBackDict ==
    /\ res.op = "from_dict"
    /\ HasDict(res.cls)
    /\ res.arg = out

\* p and q agree on every field but datatype
EqualButDatatype(p, q) ==
    \A f \in {"value"} \cup BaseFields \cup PatternFields : p[f] = q[f]

\* C1: map-form round trip of plain properties: for a plain property p = V(v)
\* with a value (falsy values such as 0 and "" included), p.to_dict() is the
\* bare serialized value and V.from_dict(p.to_dict()) is a plain property
\* equal to p.
C1_PlainRoundTrip ==
    (ReadBackDict /\ orig.value # None
       /\ \E v \in RawValues(orig.cls) : orig = init(orig.cls, v))
        => /\ out = serialized_value(orig)
           /\ res.ret.t = "property"
           /\ is_plain(res.ret)
           /\ eq(res.ret, orig) = True

\* C2: equality against a bare scalar: a plain property equals the scalar
\* exactly when its value does; a non-plain property compared with a bare
\* scalar is not equal (== False, != True) and the comparison does not fail.
C2_ScalarEquality ==
    (res.op \in {"eq", "ne"} /\ res.arg.t # "property")
        => IF is_plain(self)
           THEN res.ret = PyBool((self.value = res.arg) <=> (res.op = "eq"))
           ELSE res.ret = PyBool(res.op = "ne")

C4_IntegerCoercion ==
    (res.op = "init" /\ res.cls \in IntegerFamily)
        => /\ (res.arg.t = "str" /\ res.arg.s \in DOMAIN NumericText)
                => (res.ret.t = "property"
                    /\ res.ret.value = PyInt(NumericText[res.arg.s]))
           /\ (res.arg = None)
                => (res.ret.t = "property" /\ res.ret.value = None)
           /\ (res.arg.t = "str" /\ res.arg.s \notin DOMAIN NumericText)
                => res.ret = Raise("ValueError")

\* C5 as stated: every property, however it was built and whatever was
\* assigned to its value since, has the datatype tag of its variant.
C5_DatatypeIsTag ==
    self.t = "property" => self.datatype = PyStr(DatatypeTag(self.cls))

\* what from_dict / from_obj leave in datatype, by the input they were given
DatatypeRead ==
    /\ (res.op = "from_dict" /\ res.ret.t = "property")
          => self.datatype = IF res.arg.t = "dict" THEN Get(res.arg, "datatype")
                             ELSE PyStr(DatatypeTag(res.cls))
    /\ (res.op = "from_obj" /\ res.ret.t = "property")
          => self.datatype = res.arg.datatype

\* C5 as amended: a property built by the constructor or by from_dict of a
\* bare scalar has the tag of its variant, also after value assignments; one
\* built by from_dict of a mapping or by from_obj has the datatype of that
\* input (None when it has none), and value assignments leave it as it is.
C5_DatatypeByOrigin ==
    /\ [](/\ (self.t = "property" /\ built \in {"init", "from_dict:scalar"})
                => self.datatype = PyStr(DatatypeTag(self.cls))
          /\ DatatypeRead)
    /\ [][res'.op = "set_value" => self'.datatype = self.datatype]_vars

\* a property read from a mapping has been assigned a value and still has the
\* datatype of the mapping, which is not its variant's tag
C5_Witness ==
    /\ self.t = "property"
    /\ built = "from_dict:mapping"
    /\ res.op = "set_value"
    /\ res.ret = None
    /\ self.datatype # PyStr(DatatypeTag(self.cls))

\* C6 as stated: from_dict(x).datatype is x['datatype'] when x is a mapping
\* with that key and None otherwise; from_obj(node).datatype is the node's.
C6_DatatypeReadOrNone ==
    /\ (res.op = "from_dict" /\ res.ret.t = "property")
          => self.datatype = IF res.arg.t = "dict" THEN Get(res.arg, "datatype")
                             ELSE None
    /\ (res.op = "from_obj" /\ res.ret.t = "property")
          => self.datatype = res.arg.datatype

\* C6 as amended: whenever from_dict(x) returns a property, its datatype is
\* x['datatype'] when x is a mapping with that key, None when x is a mapping
\* without it, and the variant's tag when x is a bare scalar; the datatype of
\* a property returned by from_obj(node) is the node's.
C6_DatatypeReadBack ==
    /\ (res.op = "from_dict" /\ res.ret.t = "property" /\ res.arg.t = "dict")
          => res.ret.datatype = IF "datatype" \in DOMAIN res.arg.items
                                THEN res.arg.items["datatype"] ELSE None
    /\ (res.op = "from_dict" /\ res.ret.t = "property" /\ res.arg.t # "dict")
          => res.ret.datatype = PyStr(DatatypeTag(res.cls))
    /\ (res.op = "from_obj" /\ res.ret.t = "property")
          => res.ret.datatype = res.arg.datatype

\* from_dict of a bare scalar has returned a property, whose datatype is set
C6_Witness ==
    /\ res.op = "from_dict"
    /\ res.arg.t = "str"
    /\ res.ret.t = "property"
    /\ res.ret.datatype # None

\* C7: key set of the serialized output of a non-plain property: to_dict has
\* the key of an optional field iff the field is not None, 'value' iff the
\* value is not None, and never 'datatype'; to_obj sets an optional attribute
\* iff the field is not None and never sets datatype.
C7_KeySet ==
    /\ (res.op = "to_dict" /\ ~is_plain(self))
          => /\ res.ret.t = "dict"
             /\ \A f \in BaseFields :
                    KeyOf(f) \in DOMAIN res.ret.items <=> self[f] # None
             /\ "value" \in DOMAIN res.ret.items <=> self.value # None
             /\ "datatype" \notin DOMAIN res.ret.items
    /\ (res.op = "to_obj")
          => /\ \A f \in BaseFields : res.ret[KeyOf(f)] # None <=> self[f] # None
             /\ res.ret.datatype = None

\* a non-plain property whose one set field is falsy, with a falsy value, has
\* been serialized by to_dict
C7_Witness ==
    /\ res.op = "to_dict"
    /\ self.is_obfuscated = False
    /\ self.value \in {PyStr(""), PyInt(0)}
    /\ DOMAIN res.ret.items = {"value", "is_obfuscated"}

\* C8: metadata round trip: for a property p of a pass-through variant with
\* at least one identity / obfuscation / defanging field set, the property
\* q = V.from_dict(p.to_dict()) exists, q.value = p.value and q agrees with p
\* on each of the nine fields.
C8_MetadataRoundTrip ==
    (ReadBackDict /\ orig.cls \in PassThrough
       /\ \E f \in BaseFields : orig[f] # None)
        => /\ res.ret.t = "property"
           /\ res.ret.value = orig.value
           /\ \A f \in BaseFields : res.ret[f] = orig[f]

\* a property with no value and one algorithm reference has been read back
C8_Witness ==
    /\ ReadBackDict
    /\ orig.cls \in PassThrough
    /\ orig.value = None
    /\ orig.obfuscation_algorithm_ref # None
    /\ res.ret.t = "property"

\* C9: absent input: from_dict / from_obj of a falsy argument return None and
\* build nothing, and None is never what from_dict returns for the map form
\* of an existing property with an empty value ("" or 0).
C9_AbsentInput ==
    /\ (res.op \in {"from_dict", "from_obj"} /\ Falsy(res.arg))
          => (res.ret = None /\ self = Unset)
    /\ ~(ReadBackDict /\ orig.value # None /\ res.ret = None)

\* the value the setter stores for a raw input, element by element
Parsed(cls, raw_) ==
    IF raw_.t = "list"
    THEN PyList([i \in 1..Len(raw_.items) |-> parse_value(cls, raw_.items[i])])
    ELSE parse_value(cls, raw_)

\* C10: the stored value is the parsed value: the value of a property is the
\* parse of the raw input last assigned to it, element by element and in
\* order for a list, and an assignment whose parse fails leaves the property
\* as it was.
C10_ValueIsParsed ==
    /\ [](self.t = "property" => self.value = Parsed(self.cls, raw))
    /\ [][(res'.op = "set_value" /\ res'.ret.t = "raise") => self' = self]_vars

\* an integer property holds the integers of a list of numeric text
C10_Witness ==
    /\ self.t = "property"
    /\ self.cls \in IntParsing
    /\ raw.t = "list"
    /\ Len(raw.items) >= 1
    /\ self.value # raw

====
